---- MODULE Spec2Model ----
(***************************************************************************)
(* Model of EdifTranslation.filter_tags (edificato.py): the translation of *)
(* one DBSN building record into an OSM tag set.                           *)
(*                                                                         *)
(* A record (attrs) is a function from field names to coded strings; the   *)
(* building name is a sequence of one-character strings so that            *)
(* str.lower can be computed character by character.  The tag accumulator  *)
(* (tags) is a function from tag keys to values; tags["name"] is a         *)
(* character sequence like the field it is copied from.                    *)
(***************************************************************************)
EXTENDS Integers, Sequences, FiniteSets, TLC

VARIABLES attrs, tags, pc, ret

vars == <<attrs, tags, pc, ret>>

(***************************************************************************)
(* Bounds of the explored inputs.                                          *)
(***************************************************************************)
\* longest building name explored under SpecName
MaxNameLen == 3
\* largest number of fields a present record may lack
MaxMissing == 1

(***************************************************************************)
(* Input domains.                                                          *)
(***************************************************************************)
Fields == {"edifc_nome", "edifc_sot", "edifc_ty", "edifc_uso", "check_geom", "edifc_stat"}

\* attrs = None: the host supplies no attribute record
None == [none |-> TRUE]

\* "KELVIN" stands for the single character U+212A (KELVIN SIGN), an upper
\* case letter outside ASCII whose lower case is "k"
NameAlphabet == {"u", "U", "n", "N", "k", "K", "KELVIN", "a"}

AllNames == UNION {[1..n -> NameAlphabet] : n \in 0..MaxNameLen}

SampleNames == {<<"U", "N", "K">>, <<"U", "n", "k">>, <<"a", "n", "k">>}

KnownTypeCodes == {"04", "07", "10", "11", "14", "16", "19", "21", "22", "23", "24", "25"}

TypeCodes == KnownTypeCodes \cup {"01", "95"}

KnownUseCodes ==
    {"02", "0201", "0203", "030101", "030102", "030103", "030104", "030301",
     "030302", "0304", "0306", "0307", "05", "060101", "060102", "060201",
     "060202", "060301", "060404", "0701", "0702", "0703", "0704", "0801",
     "0802", "080201", "080202", "080203", "080206", "0804", "0806", "0901",
     "0902", "0903", "0904", "1001", "100101", "100102", "100103", "100104",
     "1002", "100201", "100202", "11", "1201", "1202", "1203", "1204"}

UseCodes == KnownUseCodes \cup {"01", "95"}

SotCodes == {"01", "02", ""}

GeomCodes == {"01", ""}

StatCodes == {"01", "02", "91", "03"}

(***************************************************************************)
(* The tag accumulator: tags = {} and tags[k] = v.                         *)
(***************************************************************************)
EmptyTags == [k \in {} |-> ""]

Put(t, k, v) == [x \in (DOMAIN t) \cup {k} |-> IF x = k THEN v ELSE t[x]]

\* a run of assignments tags[k] = v, in order
RECURSIVE PutAll(_, _)
PutAll(t, kvs) ==
    IF kvs = << >>
    THEN t
    ELSE PutAll(Put(t, Head(kvs)[1], Head(kvs)[2]), Tail(kvs))

(***************************************************************************)
(* str.lower, character by character.                                      *)
(***************************************************************************)
LowerChar(c) ==
    CASE c = "U" -> "u"
      [] c = "N" -> "n"
      [] c = "K" -> "k"
      [] c = "KELVIN" -> "k"
      [] OTHER   -> c

Lower(s) == [i \in 1..Len(s) |-> LowerChar(s[i])]

unk == <<"u", "n", "k">>

(***************************************************************************)
(* The stages of filter_tags, each as a function of the accumulator and    *)
(* the field it reads.                                                     *)
(***************************************************************************)
\* variant: the field is compared as supplied, without str.lower
NameNormalizerCaseSensitive(t, nome) ==
    IF nome # unk
    THEN Put(t, "name", nome)
    ELSE Put(t, "name", <<>>)

NameNormalizer(t, nome) ==
    IF Lower(nome) # unk
    THEN Put(t, "name", nome)
    ELSE Put(t, "name", <<>>)

UndergroundNote == "Check location, if not verifiable remove geometry"

\* variant: the note is stored under the key the Status Overlay also writes
UndergroundAnnotatorBuildingKey(t, sot) ==
    IF sot = "02"
    THEN Put(Put(Put(t, "location", "underground"),
                 "building:levels", "0"),
             "fixme:building", UndergroundNote)
    ELSE t

UndergroundAnnotator(t, sot) ==
    IF sot = "02"
    THEN Put(Put(Put(t, "location", "underground"),
                 "building:levels", "0"),
             "fixme:buildind", UndergroundNote)
    ELSE t

\* match attrs["edifc_ty"]: the assignments of the matching case, in order
TypeTable(ty) ==
    CASE ty = "04" -> << <<"building", "house">> >>
      [] ty = "07" -> << <<"building", "tower">>, <<"man_made", "tower">>,
                         <<"tower:type", "bell_tower">> >>
      [] ty = "10" -> << <<"building", "castle">> >>
      [] ty = "11" -> << <<"building", "church">> >>
      [] ty = "14" -> << <<"building", "hangar">> >>
      [] ty = "16" -> << <<"building", "temple">> >>
      [] ty = "19" -> << <<"building", "sports_hall">> >>
      [] ty = "21" -> << <<"building", "stadium">> >>
      [] ty = "22" -> << <<"building", "cathedral">> >>
      [] ty = "23" -> << <<"building", "roof">>, <<"layer", "1">> >>
      [] ty = "24" -> << <<"building", "yes">>, <<"defensive_works", "bastion">> >>
      [] ty = "25" -> << <<"building", "yes">>, <<"historic", "citywalls">> >>
      [] OTHER     -> << <<"building", "yes">> >>

\* variant: the default case assigns "house"
StructuralClassifierDefaultHouse(t, ty) ==
    IF ty \in KnownTypeCodes
    THEN PutAll(t, TypeTable(ty))
    ELSE Put(t, "building", "house")

StructuralClassifier(t, ty) == PutAll(t, TypeTable(ty))

ClassifyNote == "if it doesn't allows hospitalization it should be tagged as amenity=clinic"

\* match attrs["edifc_uso"]: the assignments of the matching case, in order;
\* no case matches a code outside the table
UseTable(uso) ==
    CASE uso = "02"     -> << <<"building", "office">> >>
      [] uso = "0201"   -> << <<"amenity", "townhall">> >>
      [] uso = "0203"   -> << <<"office", "government">>, <<"admin_level", "4">> >>
      [] uso = "030101" -> << <<"amenity", "social_facility">> >>
      [] uso = "030102" -> << <<"amenity", "hospital">>, <<"healthcare", "hospital">> >>
      [] uso = "030103" -> << <<"amenity", "clinic">>, <<"healthcare", "clinic">> >>
      [] uso = "030104" -> << <<"amenity", "hospital">>, <<"healthcare", "hospital">>,
                              <<"fixme:classify", ClassifyNote>> >>
      [] uso = "030301" -> << <<"amenity", "school">> >>
      [] uso = "030302" -> << <<"amenity", "university">> >>
      [] uso = "0304"   -> << <<"amenity", "post_office">> >>
      [] uso = "0306"   -> << <<"amenity", "police">> >>
      [] uso = "0307"   -> << <<"amenity", "fire_station">> >>
      [] uso = "05"     -> << <<"amenity", "place_of_worship">> >>
      [] uso = "060101" -> << <<"aeroway", "aerodrome">> >>
      [] uso = "060102" -> << <<"aeroway", "heliport">> >>
      [] uso = "060201" -> << <<"amenity", "bus_station">>, <<"public_transport", "station">> >>
      [] uso = "060202" -> << <<"amenity", "parking">>, <<"parking", "multi-storey">> >>
      [] uso = "060301" -> << <<"railway", "station">> >>
      [] uso = "060404" -> << <<"aerialway", "station">> >>
      [] uso = "0701"   -> << <<"amenity", "bank">> >>
      [] uso = "0702"   -> << <<"shop", "department_store">> >>
      [] uso \in {"0703", "0704"} -> << <<"shop", "supermarket">> >>
      [] uso = "0801"   -> << <<"building", "industrial">> >>
      [] uso \in {"0802", "080201", "080202", "080203", "080206"} ->
                           << <<"building", "service">>, <<"utility", "power">> >>
      [] uso = "0804"   -> << <<"man_made", "wastewater_plant">> >>
      [] uso = "0806"   -> << <<"building", "service">>, <<"utility", "telecom">> >>
      [] uso = "0901"   -> << <<"building", "house">> >>
      [] uso \in {"0902", "0903", "0904"} -> << <<"building", "farm_auxiliary">> >>
      [] uso = "1001"   -> << <<"building", "public">> >>
      [] uso = "100101" -> << <<"amenity", "library">> >>
      [] uso = "100102" -> << <<"amenity", "cinema">> >>
      [] uso = "100103" -> << <<"amenity", "theatre">> >>
      [] uso = "100104" -> << <<"tourism", "museum">> >>
      [] uso = "1002"   -> << <<"building", "sports_centre">> >>
      [] uso = "100201" -> << <<"leisure", "swimming_pool">>, <<"indoor", "yes">> >>
      [] uso = "100202" -> << <<"leisure", "sports_hall">> >>
      [] uso = "11"     -> << <<"amenity", "prison">> >>
      [] uso \in {"1201", "1202"} -> << <<"building", "hotel">> >>
      [] uso = "1203"   -> << <<"tourism", "camp_site">> >>
      [] uso = "1204"   -> << <<"tourism", "alpine_hut">> >>
      [] OTHER          -> << >>

\* variant: a use code replaces only the generic building value "yes"
UseClassifierKeepsType(t, uso) ==
    IF t["building"] # "yes"
    THEN PutAll(t, SelectSeq(UseTable(uso), LAMBDA kv : kv[1] # "building"))
    ELSE PutAll(t, UseTable(uso))

\* variant: a default case like the one of the type match
UseClassifierWithDefault(t, uso) ==
    IF UseTable(uso) = << >>
    THEN Put(t, "building", "yes")
    ELSE PutAll(t, UseTable(uso))

UseClassifier(t, uso) == PutAll(t, UseTable(uso))

GeometryNote == "check if the building is cut on regional border"

GeometryFlagAnnotator(t, geom) ==
    IF geom = "01"
    THEN Put(t, "fixme:geometry", GeometryNote)
    ELSE t

ConstructionNote == "resurvey construction type and status"

RuinsNote == "resurvey status"

\* variant: the building value is overwritten without being kept
StatusOverlayNoWrap(t, stat) ==
    CASE stat = "01" ->
            Put(Put(t, "building", "construction"),
                "fixme:building", ConstructionNote)
      [] stat = "02" -> Put(Put(t, "ruins", "yes"), "fixme:building", RuinsNote)
      [] OTHER       -> t

\* variant: the building value is kept even when it is "yes"
StatusOverlayAlwaysWrap(t, stat) ==
    CASE stat = "01" ->
            Put(Put(Put(t, "construction", t["building"]),
                    "building", "construction"),
                "fixme:building", ConstructionNote)
      [] stat = "02" -> Put(Put(t, "ruins", "yes"), "fixme:building", RuinsNote)
      [] OTHER       -> t

\* variant: the commented-out case "91" is active
StatusOverlayUnknown(t, stat) ==
    CASE stat = "01" ->
            Put(Put(IF t["building"] # "yes"
                    THEN Put(t, "construction", t["building"])
                    ELSE t,
                    "building", "construction"),
                "fixme:building", ConstructionNote)
      [] stat = "02" -> Put(Put(t, "ruins", "yes"), "fixme:building", RuinsNote)
      [] stat = "91" -> Put(t, "fixme:building", "resurvey status (unknown)")
      [] OTHER       -> t

StatusOverlay(t, stat) ==
    CASE stat = "01" ->
            Put(Put(IF t["building"] # "yes"
                    THEN Put(t, "construction", t["building"])
                    ELSE t,
                    "building", "construction"),
                "fixme:building", ConstructionNote)
      [] stat = "02" -> Put(Put(t, "ruins", "yes"), "fixme:building", RuinsNote)
      [] OTHER       -> t

(***************************************************************************)
(* The records the host can hand over: None, the empty record, and         *)
(* records lacking at most MaxMissing of the six fields.                   *)
(***************************************************************************)
Restrict(a, D) == [k \in D |-> a[k]]

Domains == {D \in SUBSET Fields : Cardinality(Fields \ D) <= MaxMissing} \cup {{}}

FullRecords(N, T, U, S, G, X) ==
    [edifc_nome : N, edifc_sot : S, edifc_ty : T, edifc_uso : U,
     check_geom : G, edifc_stat : X]

\* variant: "if attrs is None" in place of "if not attrs"
TruthyIsNotNone(a) == a # None

\* Python truthiness of attrs: None and the empty mapping are falsy
Truthy(a) == a # None /\ DOMAIN a # {}

(***************************************************************************)
(* filter_tags as a sequence of steps; pc is the position in the body.     *)
(***************************************************************************)
StagePcs == {"name", "sot", "ty", "uso", "geom", "stat"}

\* the field each stage subscripts attrs with
FieldOf(p) ==
    CASE p = "name" -> "edifc_nome"
      [] p = "sot"  -> "edifc_sot"
      [] p = "ty"   -> "edifc_ty"
      [] p = "uso"  -> "edifc_uso"
      [] p = "geom" -> "check_geom"
      [] p = "stat" -> "edifc_stat"

\* a call of filter_tags with None, or with a record restricted to one of Domains
InitWith(N, T, U, S, G, X) ==
    /\ \/ attrs = None
       \/ \E D \in Domains : \E a \in FullRecords(N, T, U, S, G, X) :
              attrs = Restrict(a, D)
    /\ tags = EmptyTags
    /\ pc = "start"
    /\ ret = "unset"

Init == InitWith(SampleNames, TypeCodes, UseCodes, SotCodes, GeomCodes, StatCodes)

InitName == InitWith(AllNames, {"07", "95"}, {"02", "95"}, {"02"}, {"01"}, {"01", "91"})

\* if not attrs: return
ReturnNone ==
    /\ pc = "start"
    /\ ~Truthy(attrs)
    /\ pc' = "done"
    /\ ret' = "None"
    /\ UNCHANGED <<attrs, tags>>

\* tags = {}
Begin ==
    /\ pc = "start"
    /\ Truthy(attrs)
    /\ tags' = EmptyTags
    /\ pc' = "name"
    /\ UNCHANGED <<attrs, ret>>

\* attrs[field] on a record without the field raises KeyError
RaiseKeyError ==
    /\ pc \in StagePcs
    /\ FieldOf(pc) \notin DOMAIN attrs
    /\ pc' = "raised"
    /\ ret' = "KeyError"
    /\ UNCHANGED <<attrs, tags>>

NameStep ==
    /\ pc = "name"
    /\ "edifc_nome" \in DOMAIN attrs
    /\ tags' = NameNormalizer(tags, attrs["edifc_nome"])
    /\ pc' = "sot"
    /\ UNCHANGED <<attrs, ret>>

UndergroundStep ==
    /\ pc = "sot"
    /\ "edifc_sot" \in DOMAIN attrs
    /\ tags' = UndergroundAnnotator(tags, attrs["edifc_sot"])
    /\ pc' = "ty"
    /\ UNCHANGED <<attrs, ret>>

StructuralStep ==
    /\ pc = "ty"
    /\ "edifc_ty" \in DOMAIN attrs
    /\ tags' = StructuralClassifier(tags, attrs["edifc_ty"])
    /\ pc' = "uso"
    /\ UNCHANGED <<attrs, ret>>

UseStep ==
    /\ pc = "uso"
    /\ "edifc_uso" \in DOMAIN attrs
    /\ tags' = UseClassifier(tags, attrs["edifc_uso"])
    /\ pc' = "geom"
    /\ UNCHANGED <<attrs, ret>>

GeometryStep ==
    /\ pc = "geom"
    /\ "check_geom" \in DOMAIN attrs
    /\ tags' = GeometryFlagAnnotator(tags, attrs["check_geom"])
    /\ pc' = "stat"
    /\ UNCHANGED <<attrs, ret>>

StatusStep ==
    /\ pc = "stat"
    /\ "edifc_stat" \in DOMAIN attrs
    /\ tags' = StatusOverlay(tags, attrs["edifc_stat"])
    /\ pc' = "return"
    /\ UNCHANGED <<attrs, ret>>

\* return tags
ReturnTags ==
    /\ pc = "return"
    /\ pc' = "done"
    /\ ret' = "tags"
    /\ UNCHANGED <<attrs, tags>>

Next ==
    \/ ReturnNone
    \/ Begin
    \/ RaiseKeyError
    \/ NameStep
    \/ UndergroundStep
    \/ StructuralStep
    \/ UseStep
    \/ GeometryStep
    \/ StatusStep
    \/ ReturnTags

Spec == Init /\ [][Next]_vars

SpecName == InitName /\ [][Next]_vars

TypeOK ==
    /\ pc \in {"start", "return", "done", "raised"} \cup StagePcs
    /\ ret \in {"unset", "None", "tags", "KeyError"}
    /\ ret = "tags" <=> pc = "done" /\ Truthy(attrs)

(***************************************************************************)
(* filter_tags as one function of a record with all six fields.            *)
(***************************************************************************)
filter_tags(a) ==
    StatusOverlay(
        GeometryFlagAnnotator(
            UseClassifier(
                StructuralClassifier(
                    UndergroundAnnotator(
                        NameNormalizer(EmptyTags, a["edifc_nome"]),
                        a["edifc_sot"]),
                    a["edifc_ty"]),
                a["edifc_uso"]),
            a["check_geom"]),
        a["edifc_stat"])

(***************************************************************************)
(* What the specification expects, written down independently of the      *)
(* tables above.                                                           *)
(***************************************************************************)
\* the use codes whose entry assigns the building tag, with the value assigned
ExpectedUseBuilding ==
    [u \in {"02", "0801", "0802", "080201", "080202", "080203", "080206", "0806",
            "0901", "0902", "0903", "0904", "1001", "1002", "1201", "1202"} |->
        CASE u = "02" -> "office"
          [] u = "0801" -> "industrial"
          [] u \in {"0802", "080201", "080202", "080203", "080206", "0806"} -> "service"
          [] u = "0901" -> "house"
          [] u \in {"0902", "0903", "0904"} -> "farm_auxiliary"
          [] u = "1001" -> "public"
          [] u = "1002" -> "sports_centre"
          [] u \in {"1201", "1202"} -> "hotel"]

\* the building value of each of the 12 known type codes; "yes" for any other
ExpectedTypeBuilding(ty) ==
    CASE ty = "04" -> "house"
      [] ty = "07" -> "tower"
      [] ty = "10" -> "castle"
      [] ty = "11" -> "church"
      [] ty = "14" -> "hangar"
      [] ty = "16" -> "temple"
      [] ty = "19" -> "sports_hall"
      [] ty = "21" -> "stadium"
      [] ty = "22" -> "cathedral"
      [] ty = "23" -> "roof"
      [] ty \in {"24", "25"} -> "yes"
      [] OTHER -> "yes"

\* the building value after the Structural and the Use Classifier
ExpectedBuilding(ty, uso) ==
    IF uso \in DOMAIN ExpectedUseBuilding
    THEN ExpectedUseBuilding[uso]
    ELSE ExpectedTypeBuilding(ty)

\* every spelling of the sentinel "unk" in upper and lower case letters
UnkSpellings ==
    {s \in [1..3 -> {"u", "U", "n", "N", "k", "K", "KELVIN"}] :
        s[1] \in {"u", "U"} /\ s[2] \in {"n", "N"} /\ s[3] \in {"k", "K", "KELVIN"}}

FixupKeys == {"fixme:buildind", "fixme:building", "fixme:classify", "fixme:geometry"}

Returned == pc = "done" /\ ret = "tags"

(***************************************************************************)
(* C1  Precedence law.  In every returned tag set the building value is    *)
(* "construction" when the status code is "01", whatever the type and use  *)
(* codes; otherwise, when the use code is one of the 16 whose entry        *)
(* assigns the building tag, it is the use code's value, not the type's.   *)
(***************************************************************************)
PrecedenceLaw ==
    Returned =>
        /\ attrs["edifc_stat"] = "01" => tags["building"] = "construction"
        /\ (attrs["edifc_stat"] # "01" /\ attrs["edifc_uso"] \in DOMAIN ExpectedUseBuilding)
              => tags["building"] = ExpectedUseBuilding[attrs["edifc_uso"]]

PrecedenceLawWitness ==
    /\ Returned
    /\ attrs["edifc_ty"] = "07"
    /\ attrs["edifc_uso"] = "02"
    /\ attrs["edifc_stat"] = "91"
    /\ tags["building"] = "office"

(***************************************************************************)
(* C2  Construction wrap, as claimed: type code "07" with status code "01" *)
(* gives construction=tower and building=construction for every use code. *)
(***************************************************************************)
ConstructionWrapAnyUse ==
    (Returned /\ attrs["edifc_ty"] = "07" /\ attrs["edifc_stat"] = "01") =>
        /\ tags["building"] = "construction"
        /\ "construction" \in DOMAIN tags
        /\ tags["construction"] = "tower"

(***************************************************************************)
(* C2  Construction wrap, amended: type code "07" with status code "01"    *)
(* gives building=construction for every use code, and construction=tower  *)
(* for every use code whose entry does not assign the building tag; for    *)
(* one that does, the construction key holds the use code's value.         *)
(***************************************************************************)
ConstructionWrap ==
    (Returned /\ attrs["edifc_ty"] = "07" /\ attrs["edifc_stat"] = "01") =>
        /\ tags["building"] = "construction"
        /\ "construction" \in DOMAIN tags
        /\ tags["construction"] =
              IF attrs["edifc_uso"] \in DOMAIN ExpectedUseBuilding
              THEN ExpectedUseBuilding[attrs["edifc_uso"]]
              ELSE "tower"

ConstructionWrapWitness ==
    /\ Returned
    /\ attrs["edifc_ty"] = "07"
    /\ attrs["edifc_stat"] = "01"
    /\ attrs["edifc_uso"] = "0201"
    /\ tags["construction"] = "tower"
    /\ tags["building"] = "construction"

(***************************************************************************)
(* C3  Absence contract.  With attrs None or empty, filter_tags returns    *)
(* None and no stage runs (the accumulator is never written); with a       *)
(* record of all six fields it never raises and returns the tag mapping.   *)
(***************************************************************************)
AbsenceContract ==
    /\ (attrs = None \/ DOMAIN attrs = {}) =>
          /\ pc \in {"start", "done"}
          /\ tags = EmptyTags
          /\ pc = "done" => ret = "None"
    /\ DOMAIN attrs = Fields =>
          /\ pc # "raised"
          /\ ret \in {"unset", "tags"}
          /\ pc = "done" => ret = "tags" /\ tags # EmptyTags

AbsenceContractWitness ==
    /\ DOMAIN attrs = {}
    /\ pc = "done"
    /\ ret = "None"

(***************************************************************************)
(* C4  Status Overlay, status code "01".  The step copies a building value *)
(* other than "yes" to the construction key and writes no construction key *)
(* for "yes"; either way it sets building=construction and the             *)
(* fixme:building note.  No tag set holds a construction key unless the    *)
(* status code is "01".                                                    *)
(***************************************************************************)
StatusOverlayConstruction ==
    /\ [][(pc = "stat" /\ pc' = "return" /\ attrs["edifc_stat"] = "01") =>
             /\ tags["building"] # "yes" =>
                   /\ "construction" \in DOMAIN tags'
                   /\ tags'["construction"] = tags["building"]
             /\ tags["building"] = "yes" => "construction" \notin DOMAIN tags'
             /\ tags'["building"] = "construction"
             /\ tags'["fixme:building"] = "resurvey construction type and status"]_vars
    /\ []("construction" \in DOMAIN tags => attrs["edifc_stat"] = "01")

StatusOverlayConstructionWitness ==
    /\ Returned
    /\ attrs["edifc_stat"] = "01"
    /\ attrs["edifc_ty"] = "24"
    /\ attrs["edifc_uso"] = "0201"
    /\ "construction" \notin DOMAIN tags
    /\ tags["building"] = "construction"

(***************************************************************************)
(* C5  Underground example.  A returned tag set has location=underground,  *)
(* building:levels=0 and a fix-up tag carrying the underground note        *)
(* exactly when the underground flag is "02"; for any other flag it has    *)
(* none of the three.                                                      *)
(***************************************************************************)
UndergroundExample ==
    Returned =>
        IF attrs["edifc_sot"] = "02"
        THEN /\ "location" \in DOMAIN tags /\ tags["location"] = "underground"
             /\ "building:levels" \in DOMAIN tags /\ tags["building:levels"] = "0"
             /\ \E k \in FixupKeys \cap DOMAIN tags :
                    tags[k] = "Check location, if not verifiable remove geometry"
        ELSE /\ "location" \notin DOMAIN tags
             /\ "building:levels" \notin DOMAIN tags
             /\ \A k \in FixupKeys \cap DOMAIN tags :
                    tags[k] # "Check location, if not verifiable remove geometry"

UndergroundExampleWitness ==
    /\ Returned
    /\ attrs["edifc_sot"] = "02"
    /\ attrs["edifc_stat"] = "01"
    /\ attrs["check_geom"] = "01"
    /\ "fixme:building" \in DOMAIN tags
    /\ tags["location"] = "underground"

(***************************************************************************)
(* C6  Name case-insensitivity.  Once the Name Normalizer has run, and in  *)
(* every later stage, the name tag is "" when the name field is a spelling *)
(* of "unk" in any letter case, and the field itself otherwise.            *)
(***************************************************************************)
NameCaseInsensitivity ==
    (pc \in {"sot", "ty", "uso", "geom", "stat", "return"} \/ Returned) =>
        /\ "name" \in DOMAIN tags
        /\ tags["name"] = IF attrs["edifc_nome"] \in UnkSpellings
                          THEN << >>
                          ELSE attrs["edifc_nome"]

NameCaseInsensitivityWitness ==
    /\ Returned
    /\ attrs["edifc_nome"] = <<"U", "n", "K">>
    /\ tags["name"] = << >>

(***************************************************************************)
(* C7  Structural Classifier totality.  No stage before the Structural     *)
(* Classifier writes the building key; right after it the key holds the    *)
(* table value of a known type code and "yes" for any other code; every    *)
(* returned tag set has the building key.                                  *)
(***************************************************************************)
StructuralTotality ==
    /\ pc \in {"start", "name", "sot", "ty"} => "building" \notin DOMAIN tags
    /\ pc = "uso" =>
          /\ "building" \in DOMAIN tags
          /\ tags["building"] = ExpectedTypeBuilding(attrs["edifc_ty"])
    /\ Returned => "building" \in DOMAIN tags

StructuralTotalityWitness ==
    /\ pc = "uso"
    /\ attrs["edifc_ty"] = "95"
    /\ tags["building"] = "yes"

(***************************************************************************)
(* C8  Use Classifier frame.  For a use code with no table entry the tag   *)
(* set right after the Use Classifier is the one the stages before it      *)
(* built, and the returned tag set is the one the other stages produce on  *)
(* their own.                                                              *)
(***************************************************************************)
UseClassifierFrame ==
    /\ (pc = "geom" /\ attrs["edifc_uso"] \notin KnownUseCodes) =>
        tags = StructuralClassifier(
                   UndergroundAnnotator(
                       NameNormalizer(EmptyTags, attrs["edifc_nome"]),
                       attrs["edifc_sot"]),
                   attrs["edifc_ty"])
    /\ (Returned /\ attrs["edifc_uso"] \notin KnownUseCodes) =>
        tags = StatusOverlay(
                   GeometryFlagAnnotator(
                       StructuralClassifier(
                           UndergroundAnnotator(
                               NameNormalizer(EmptyTags, attrs["edifc_nome"]),
                               attrs["edifc_sot"]),
                           attrs["edifc_ty"]),
                       attrs["check_geom"]),
                   attrs["edifc_stat"])

UseClassifierFrameWitness ==
    /\ Returned
    /\ attrs["edifc_uso"] = "95"
    /\ attrs["edifc_ty"] = "04"
    /\ attrs["edifc_stat"] = "91"
    /\ tags["building"] = "house"

(***************************************************************************)
(* C9  Unknown-status no-op.  For status code "91", and any status code    *)
(* other than "01" and "02", a returned tag set has no construction, ruins *)
(* or fixme:building key and its building value is the one computed by the *)
(* Structural and Use Classifiers.                                         *)
(***************************************************************************)
UnknownStatusNoOp ==
    (Returned /\ attrs["edifc_stat"] \notin {"01", "02"}) =>
        /\ "construction" \notin DOMAIN tags
        /\ "ruins" \notin DOMAIN tags
        /\ "fixme:building" \notin DOMAIN tags
        /\ tags["building"] = ExpectedBuilding(attrs["edifc_ty"], attrs["edifc_uso"])

UnknownStatusNoOpWitness ==
    /\ Returned
    /\ attrs["edifc_stat"] = "91"
    /\ attrs["edifc_sot"] = "02"
    /\ attrs["edifc_ty"] = "07"
    /\ "fixme:buildind" \in DOMAIN tags
    /\ tags["building"] = "tower"

(***************************************************************************)
(* C10  Underground Annotator on absence.  For a record that lacks only    *)
(* the underground-flag field, filter_tags raises no error and returns the *)
(* tag set of the same record with an underground flag other than "02".    *)
(***************************************************************************)
UndergroundAbsence ==
    DOMAIN attrs = Fields \ {"edifc_sot"} =>
        /\ pc # "raised"
        /\ pc = "done" =>
              /\ ret = "tags"
              /\ tags = filter_tags([k \in Fields |->
                                        IF k = "edifc_sot" THEN "01" ELSE attrs[k]])

====
